---- MODULE Spec2Model ----
(***************************************************************************)
(* Model of UniversalAtomicSolver (atomic_solver.py, problem_state.py,     *)
(* universal_validator.py): the run of AtomicSolver over a plan of steps.  *)
(*                                                                         *)
(* A text is a sequence of one-character strings, so that strip, the       *)
(* regular-expression substitutions, json.loads, len and the substring     *)
(* tests of the code are computed on characters.                           *)
(*                                                                         *)
(* Specifications:                                                         *)
(*   SpecRun       run(goal, context) from its entry: decompose,           *)
(*                 len(steps), choose_model up to its prompt, where it     *)
(*                 raises;                                                 *)
(*   Spec          the code from the routing call of choose_model on       *)
(*                 (lines 114-256): the decoding of the routing answer     *)
(*                 and the loop over the steps;                            *)
(*   SpecVoting    solve_step_with_voting called with any vote_count;      *)
(*   SpecAdapter   _call_llm on the responses of the client;               *)
(*   SpecValidate  UniversalValidator.validate on texts;                   *)
(*   SpecMain      daily_logger.main on its command lines;                 *)
(*   SpecDaily     the daily log file, merged run after run.               *)
(***************************************************************************)
EXTENDS Integers, Sequences, FiniteSets, TLC

(***************************************************************************)
(* Text primitives (str methods and the re.sub patterns of the code)       *)
(***************************************************************************)

\* str.strip() and json's whitespace: blank, newline, tab, carriage return
WS == {" ", "\n", "\t", "\r"}

\* the least element of a non-empty set of positions
Min(S) == CHOOSE x \in S : \A y \in S : x <= y
Max(S) == CHOOSE x \in S : \A y \in S : x >= y

\* the positions of s that hold no whitespace
Solid(s) == {p \in 1..Len(s) : s[p] \notin WS}

LStrip(s) == IF Solid(s) = {} THEN <<>> ELSE SubSeq(s, Min(Solid(s)), Len(s))

RStrip(s) == IF Solid(s) = {} THEN <<>> ELSE SubSeq(s, 1, Max(Solid(s)))

\* str.strip()
Strip(s) == RStrip(LStrip(s))

\* s[p:].startswith(pat), p a 1-based position
StartsAt(s, p, pat) ==
    /\ p + Len(pat) - 1 <= Len(s)
    /\ SubSeq(s, p, p + Len(pat) - 1) = pat

\* pat in s
Contains(s, pat) == \E p \in 1..(Len(s) + 1) : StartsAt(s, p, pat)

\* the backquote character (written BQ: the character itself cannot appear in
\* a string of this module)
BQ == "BQ"
FenceJson == <<BQ, BQ, BQ, "j", "s", "o", "n">>
Fence == <<BQ, BQ, BQ>>

\* re.sub of the pattern (three backquotes + json | three backquotes) by "":
\* leftmost match, first alternative first
RECURSIVE RemoveFences(_)
RemoveFences(s) ==
    LET hits == {p \in 1..Len(s) : StartsAt(s, p, Fence)}
    IN IF hits = {} THEN s
       ELSE LET p == Min(hits)
                n == IF StartsAt(s, p, FenceJson) THEN Len(FenceJson) ELSE Len(Fence)
            IN SubSeq(s, 1, p - 1) \o RemoveFences(SubSeq(s, p + n, Len(s)))

\* the ends of the matches of <.*?> that start at s[p]: a ">" after p with no
\* newline in between ("." does not match a newline)
TagEnds(s, p) ==
    {q \in (p + 1)..Len(s) : s[q] = ">" /\ \A r \in (p + 1)..(q - 1) : s[r] # "\n"}

\* re.sub(r"<.*?>", "", winner_raw): the leftmost match, the shortest one there
RECURSIVE RemoveTags(_)
RemoveTags(s) ==
    LET hits == {p \in 1..Len(s) : s[p] = "<" /\ TagEnds(s, p) # {}}
    IN IF hits = {} THEN s
       ELSE LET p == Min(hits)
                q == Min(TagEnds(s, p))
            IN SubSeq(s, 1, p - 1) \o RemoveTags(SubSeq(s, q + 1, Len(s)))

(***************************************************************************)
(* json.loads on a text.  A decoded value is a record [k, v]: k is the     *)
(* Python type of the value ("str", "int", "list", "dict", "lit").         *)
(***************************************************************************)

JStr(t) == [k |-> "str", v |-> t]
JInt(n) == [k |-> "int", v |-> n]
JList(items) == [k |-> "list", v |-> items]
\* a dict as the sequence of its (key, value) pairs in insertion order
JDict(pairs) == [k |-> "dict", v |-> pairs]
JNone == [k |-> "lit", v |-> "None"]
JTrue == [k |-> "lit", v |-> "True"]
Digits == <<"0", "1", "2", "3", "4", "5", "6", "7", "8", "9">>
IsDigit(c) == \E d \in 1..10 : Digits[d] = c
\* a failed decode (json.JSONDecodeError)
NoParse == [ok |-> FALSE, val |-> JNone, pos |-> 0]
Parsed(val, pos) == [ok |-> TRUE, val |-> val, pos |-> pos]

\* the first position >= p of s that holds no whitespace (Len(s) + 1 at the end)
SkipWs(s, p) == Min({q \in p..(Len(s) + 1) : q = Len(s) + 1 \/ s[q] \notin WS})

\* a string literal starting at the quote s[p]: up to the next quote; a control
\* character inside the literal is rejected (strict mode)
ParseString(s, p) ==
    LET qs == {q \in (p + 1)..Len(s) : s[q] = "\""}
    IN IF qs = {} THEN NoParse
       ELSE LET q == Min(qs)
                body == SubSeq(s, p + 1, q - 1)
            IN IF \E r \in 1..Len(body) : body[r] \in {"\n", "\t", "\r"}
               THEN NoParse
               ELSE Parsed(JStr(body), q + 1)

\* the value of the digit run s[p..q-1], and q
RECURSIVE DigitRun(_, _, _)
DigitRun(s, p, acc) ==
    LET DigitVal(c) == (CHOOSE d \in 1..10 : Digits[d] = c) - 1
    IN
    IF p <= Len(s) /\ IsDigit(s[p])
    THEN DigitRun(s, p + 1, 10 * acc + DigitVal(s[p]))
    ELSE [n |-> acc, pos |-> p]

\* an integer literal: 0 | [1-9][0-9]*
ParseInt(s, p) ==
    IF s[p] = "0" THEN Parsed(JInt(0), p + 1)
    ELSE LET r == DigitRun(s, p, 0) IN Parsed(JInt(r.n), r.pos)

RECURSIVE ParseValue(_, _)
RECURSIVE ParseElems(_, _, _)
RECURSIVE ParseMembers(_, _, _)

\* the elements of a list after an opening bracket or a comma
ParseElems(s, p, acc) ==
    LET e == ParseValue(s, p)
    IN IF ~e.ok THEN NoParse
       ELSE LET q == SkipWs(s, e.pos)
            IN IF q > Len(s) THEN NoParse
               ELSE IF s[q] = "]" THEN Parsed(JList(Append(acc, e.val)), q + 1)
               ELSE IF s[q] = "," THEN ParseElems(s, SkipWs(s, q + 1), Append(acc, e.val))
               ELSE NoParse

\* the members of an object after an opening brace or a comma
ParseMembers(s, p, acc) ==
    \* d[key] = val on the pairs of a dict: a key already present keeps its place
    LET DictSet(pairs, key, val) ==
            IF \E n \in 1..Len(pairs) : pairs[n][1] = key
            THEN [n \in 1..Len(pairs) |-> IF pairs[n][1] = key THEN <<key, val>> ELSE pairs[n]]
            ELSE Append(pairs, <<key, val>>)
    IN
    IF p > Len(s) \/ s[p] # "\"" THEN NoParse
    ELSE LET key == ParseString(s, p)
         IN IF ~key.ok THEN NoParse
            ELSE LET c == SkipWs(s, key.pos)
                 IN IF c > Len(s) \/ s[c] # ":" THEN NoParse
                    ELSE LET e == ParseValue(s, SkipWs(s, c + 1))
                         IN IF ~e.ok THEN NoParse
                            ELSE LET q == SkipWs(s, e.pos)
                                     acc2 == DictSet(acc, key.val.v, e.val)
                                 IN IF q > Len(s) THEN NoParse
                                    ELSE IF s[q] = "}" THEN Parsed(JDict(acc2), q + 1)
                                    ELSE IF s[q] = ","
                                         THEN ParseMembers(s, SkipWs(s, q + 1), acc2)
                                    ELSE NoParse

ParseValue(s, p) ==
    LET JFalse == [k |-> "lit", v |-> "False"]
    IN
    IF p > Len(s) THEN NoParse
    ELSE IF s[p] = "\"" THEN ParseString(s, p)
    ELSE IF IsDigit(s[p]) THEN ParseInt(s, p)
    ELSE IF s[p] = "["
         THEN LET q == SkipWs(s, p + 1)
              IN IF q <= Len(s) /\ s[q] = "]" THEN Parsed(JList(<<>>), q + 1)
                 ELSE ParseElems(s, q, <<>>)
    ELSE IF s[p] = "{"
         THEN LET q == SkipWs(s, p + 1)
              IN IF q <= Len(s) /\ s[q] = "}" THEN Parsed(JDict(<<>>), q + 1)
                 ELSE ParseMembers(s, q, <<>>)
    ELSE IF StartsAt(s, p, <<"n", "u", "l", "l">>) THEN Parsed(JNone, p + 4)
    ELSE IF StartsAt(s, p, <<"t", "r", "u", "e">>) THEN Parsed(JTrue, p + 4)
    ELSE IF StartsAt(s, p, <<"f", "a", "l", "s", "e">>) THEN Parsed(JFalse, p + 5)
    ELSE NoParse

\* json.loads(s): one value between optional whitespace, nothing after it;
\* ok = FALSE stands for json.JSONDecodeError
JsonLoads(s) ==
    LET r == ParseValue(s, SkipWs(s, 1))
    IN IF r.ok /\ SkipWs(s, r.pos) = Len(s) + 1 THEN r ELSE NoParse

(***************************************************************************)
(* Python values: len, iteration, indexing, str                            *)
(***************************************************************************)

\* len(v) is defined for str, list and dict; TypeError otherwise
HasLen(v) == v.k \in {"str", "list", "dict"}
PyLen(v) == Len(v.v)

\* the items that "for ... in enumerate(v)" yields: the elements of a list,
\* the characters of a str, the keys of a dict
Items(v) ==
    IF v.k = "list" THEN v.v
    ELSE IF v.k = "str" THEN [n \in 1..Len(v.v) |-> JStr(<<v.v[n]>>)]
    ELSE [n \in 1..Len(v.v) |-> JStr(v.v[n][1])]

RECURSIVE IntToText(_)
IntToText(n) == IF n < 10 THEN <<Digits[n + 1]>>
                ELSE IntToText(n \div 10) \o <<Digits[(n % 10) + 1]>>

RECURSIVE PyRepr(_)
RECURSIVE ReprItems(_)
RECURSIVE ReprPairs(_)
\* repr(v) for the elements of a container (a str is quoted)
PyRepr(v) ==
    IF v.k = "str" THEN <<"'">> \o v.v \o <<"'">>
    ELSE IF v.k = "int" THEN IntToText(v.v)
    ELSE IF v.k = "lit"
         THEN (IF v = JNone THEN <<"N", "o", "n", "e">>
               ELSE IF v = JTrue THEN <<"T", "r", "u", "e">>
               ELSE <<"F", "a", "l", "s", "e">>)
    ELSE IF v.k = "list" THEN <<"[">> \o ReprItems(v.v) \o <<"]">>
    ELSE <<"{">> \o ReprPairs(v.v) \o <<"}">>
ReprItems(items) ==
    IF items = <<>> THEN <<>>
    ELSE IF Len(items) = 1 THEN PyRepr(items[1])
    ELSE PyRepr(Head(items)) \o <<",", " ">> \o ReprItems(Tail(items))
ReprPairs(pairs) ==
    IF pairs = <<>> THEN <<>>
    ELSE LET one == PyRepr(JStr(pairs[1][1])) \o <<":", " ">> \o PyRepr(pairs[1][2])
         IN IF Len(pairs) = 1 THEN one
            ELSE one \o <<",", " ">> \o ReprPairs(Tail(pairs))

\* str(v), as an f-string renders {v}
PyStr(v) == IF v.k = "str" THEN v.v ELSE PyRepr(v)

(***************************************************************************)
(* UniversalValidator.validate                                             *)
(***************************************************************************)

MinLength == 5
ICannot == <<"I", " ", "c", "a", "n", "n", "o", "t">>
IAmAnAI == <<"I", " ", "a", "m", " ", "a", "n", " ", "A", "I">>

MsgEmpty == "Error: Empty output generated."
MsgShort == "Error: Response too short to be valid."
MsgRefusal == "Warning: Potential refusal detected."
MsgValid == "Logic Valid"

\* validate that measures the stripped text
ValidateStripped(content) ==
    IF Strip(content) = <<>> THEN <<FALSE, MsgEmpty>>
    ELSE IF Len(Strip(content)) < MinLength THEN <<FALSE, MsgShort>>
    ELSE IF Contains(content, ICannot) \/ Contains(content, IAmAnAI)
         THEN <<TRUE, MsgRefusal>>
    ELSE <<TRUE, MsgValid>>

\* validate with a length test that is off by one
ValidateOffByOne(content) ==
    IF Strip(content) = <<>> THEN <<FALSE, MsgEmpty>>
    ELSE IF Len(content) < MinLength - 1 THEN <<FALSE, MsgShort>>
    ELSE IF Contains(content, ICannot) \/ Contains(content, IAmAnAI)
         THEN <<TRUE, MsgRefusal>>
    ELSE <<TRUE, MsgValid>>

\* validate(content) -> (is_valid, msg)
Validate(content) ==
    IF Strip(content) = <<>> THEN <<FALSE, MsgEmpty>>
    ELSE IF Len(content) < MinLength THEN <<FALSE, MsgShort>>
    ELSE IF Contains(content, ICannot) \/ Contains(content, IAmAnAI)
         THEN <<TRUE, MsgRefusal>>
    ELSE <<TRUE, MsgValid>>

(***************************************************************************)
(* ProblemState                                                            *)
(***************************************************************************)

\* last_error = None
None == "<None>"
\* ProblemState(context=context): empty solution, no error
NewState(ctx) == [solution_content |-> <<>>, context |-> ctx, last_error |-> None]

\* get_prompt_context(): the three fields as the prompt shows them
GetPromptContext(st) ==
    LET EmptyMark == <<"(", "E", "m", "p", "t", "y", ")">>
    IN
    [solution |-> IF st.solution_content # <<>> THEN st.solution_content ELSE EmptyMark,
     context |-> st.context,
     last_error |-> IF st.last_error # None THEN st.last_error ELSE "None"]

(***************************************************************************)
(* AtomicSolver._call_llm                                                  *)
(***************************************************************************)

ApiError == <<"#", " ", "A", "P", "I", " ", "E", "r", "r", "o", "r", ":", " ">>

\* What the backend does on one call: it answers with text parts (joined in
\* text), answers without candidates, or raises an exception with message msg.
BackendText(t) == [kind |-> "text", text |-> t]
BackendNoCandidates == [kind |-> "text", text |-> <<>>]
BackendError(m) == [kind |-> "error", text |-> m]

\* _call_llm: the joined text parts stripped, or the sentinel on an exception
CallLLM(out) ==
    IF out.kind = "error" THEN ApiError \o out.text ELSE Strip(out.text)

(***************************************************************************)
(* Dict access on decoded values                                           *)
(***************************************************************************)

DictHas(pairs, key) == \E n \in 1..Len(pairs) : pairs[n][1] = key
DictGet(pairs, key) == pairs[CHOOSE n \in 1..Len(pairs) : pairs[n][1] = key][2]

(***************************************************************************)
(* AtomicSolver.decompose                                                  *)
(***************************************************************************)

\* the final step that the decomposition prompt asks for
FinalReport == <<"D", "r", "a", "f", "t", " ", "t", "h", "e", " ", "f",
    "i", "n", "a", "l", " ", "r", "e", "p", "o", "r", "t", " ", "f", "o",
    "l", "l", "o", "w", "i", "n", "g", " ", "t", "h", "e", " ", "r", "e",
    "q", "u", "i", "r", "e", "d", " ", "t", "e", "m", "p", "l", "a", "t",
    "e", " ", "s", "t", "r", "u", "c", "t", "u", "r", "e", ",", " ", "p",
    "o", "p", "u", "l", "a", "t", "i", "n", "g", " ", "e", "a", "c", "h",
    " ", "s", "e", "c", "t", "i", "o", "n", " ", "w", "i", "t", "h", " ",
    "t", "h", "e", " ", "d", "e", "r", "i", "v", "e", "d", " ", "d", "a",
    "t", "a", " ", "a", "n", "d", " ", "f", "o", "r", "m", "u", "l", "a",
    "t", "i", "n", "g", " ", "a", "c", "t", "i", "o", "n", "a", "b", "l",
    "e", " ", "r", "e", "c", "o", "m", "m", "e", "n", "d", "a", "t", "i",
    "o", "n", "s", ".">>

\* decompose without the fallback: an undecodable answer gives an empty plan
DecomposeNoFallback(main_goal, out) ==
    LET raw == CallLLM(out)
        clean_json == Strip(RemoveFences(raw))
        r == JsonLoads(clean_json)
    IN IF r.ok THEN r.val ELSE JList(<<>>)

\* decompose(state, main_goal) when the backend does out: the decoded value,
\* whatever its type, or [main_goal] on json.JSONDecodeError
Decompose(main_goal, out) ==
    LET raw == CallLLM(out)
        clean_json == Strip(RemoveFences(raw))
        r == JsonLoads(clean_json)
    IN IF r.ok THEN r.val ELSE JList(<<JStr(main_goal)>>)

(***************************************************************************)
(* Inputs of a run: the goal, the context and what the backend answers     *)
(***************************************************************************)

\* the longest plan the backend proposes
MaxSteps == 2

GoalY == <<"p", "l", "a", "n">>
ResearchX == <<"R", "e", "s", "e", "a", "r", "c", "h", " ", "X">>
Goals ==
    LET GoalX == <<"S", "u", "m", "m", "a", "r", "i", "z", "e", " ", "p", "r", "o",
            "j", "e", "c", "t", " ", "X">>
    IN
         {GoalX, GoalY}
Contexts ==
    LET LogText == <<"l", "o", "g", "s">>
    IN
            {<<>>, LogText}

RECURSIVE Dumps(_)
RECURSIVE DumpItems(_)
RECURSIVE DumpPairs(_)
\* the JSON text of a value, as a backend that answers in JSON writes it
Dumps(v) ==
    IF v.k = "str" THEN <<"\"">> \o v.v \o <<"\"">>
    ELSE IF v.k = "int" THEN IntToText(v.v)
    ELSE IF v.k = "lit"
         THEN (IF v = JNone THEN <<"n", "u", "l", "l">>
               ELSE IF v = JTrue THEN <<"t", "r", "u", "e">>
               ELSE <<"f", "a", "l", "s", "e">>)
    ELSE IF v.k = "list" THEN <<"[">> \o DumpItems(v.v) \o <<"]">>
    ELSE <<"{">> \o DumpPairs(v.v) \o <<"}">>
DumpItems(items) ==
    IF items = <<>> THEN <<>>
    ELSE IF Len(items) = 1 THEN Dumps(items[1])
    ELSE Dumps(Head(items)) \o <<",", " ">> \o DumpItems(Tail(items))
DumpPairs(pairs) ==
    IF pairs = <<>> THEN <<>>
    ELSE LET one == Dumps(JStr(pairs[1][1])) \o <<":", " ">> \o Dumps(pairs[1][2])
         IN IF Len(pairs) = 1 THEN one
            ELSE one \o <<",", " ">> \o DumpPairs(Tail(pairs))

\* a plan of n steps: n - 1 times "Research X", then last
Plan(n, last) == JList([m \in 1..n |-> JStr(IF m = n THEN last ELSE ResearchX)])

Timeout == <<"t", "i", "m", "e", "o", "u", "t">>
Chatty == <<"S", "u", "r", "e", "!", " ", "H", "e", "r", "e", " ", "i",
    "s", " ", "t", "h", "e", " ", "p", "l", "a", "n">>
Truncated == <<"[", "\"", "R", "e", "s", "e", "a", "r", "c", "h", " ", "X",
    "\"", ",", " ">>
TextAB == <<"a", "b">>

\* what the backend does on the decomposition call
DecomposeOutcomes ==
    LET KeyA == <<"a">>
    IN
    \* the plans the backend proposes: of 0..MaxSteps steps, ending with the final
    \* report step or not
    LET Plans == {JList(<<>>)} \cup {Plan(n, last) : n \in 1..MaxSteps, last \in {ResearchX, FinalReport}}
    IN
    \* a plan wrapped in a json code fence
    LET Fenced(t) == FenceJson \o <<"\n">> \o t \o <<"\n">> \o Fence
    IN
    {BackendText(Dumps(p)) : p \in Plans}
    \cup {BackendText(Fenced(Dumps(Plan(MaxSteps, FinalReport))))}
    \cup {BackendText(Dumps(JInt(5))), BackendText(Dumps(JNone)),
          BackendText(Dumps(JStr(TextAB))), BackendText(Dumps(JList(<<JInt(0)>>))),
          BackendText(Dumps(JDict(<<>>))),
          BackendText(Dumps(JDict(<<<<KeyA, JStr(TextAB)>>>>)))}
    \cup {BackendText(Chatty), BackendText(Truncated), BackendText(<<" ", "\n">>),
          BackendNoCandidates, BackendError(Timeout)}

(***************************************************************************)
(* The run of AtomicSolver.run(goal, context)                              *)
(***************************************************************************)

VARIABLES
    goal,             \* run's argument
    state,            \* the ProblemState of the run
    model_name,       \* self.model_name
    steps,            \* what decompose returned
    number_of_steps,  \* len(steps)
    models,           \* what choose_model returned
    i,                \* the loop index of run (0-based)
    candidates,       \* the candidates of solve_step_with_voting
    new_content,      \* the judged text of the current step
    pc,               \* where the run is
    err,              \* the exception that ended the run, if any
    result,           \* what run returned
    calls,            \* the completion calls made so far, in order
    all_failed,       \* every completion call so far ended in a backend error
    reply,            \* the text the last decomposition or routing call returned
    cur               \* what happened to the current step so far

\* the variables of run
runVars == <<goal, state, model_name, steps, number_of_steps, models, i, candidates,
             new_content, pc, err, result, calls, all_failed, reply, cur>>

VARIABLES
    vote_count,       \* the vote_count argument of solve_step_with_voting
    response,         \* what generate_content does on the call of _call_llm
    returned,         \* what _call_llm did with it
    content,          \* the argument of UniversalValidator.validate
    verdict,          \* what validate returned for it
    argv,             \* the command line of daily_logger.main
    today,            \* datetime.date.today()
    workflow,         \* what main did
    file,             \* the lines of the day's log file (<<>>: no file)
    entered           \* the inputs of the daily-log runs so far

\* the variables of the functions that are called outside run
aside == <<vote_count, response, returned, content, verdict, argv, today, workflow,
           file, entered>>

vars == <<runVars, aside>>

FlashModel == "gemini-3-flash-preview"
ProModel == "gemini-3-pro-preview"

NoErr == "none"
\* cur before any step: the index of the step, the snapshot before it, the
\* repaired text, the number of validate calls, the outcome so far and the
\* outcome of the iteration before
NoStep == [i |-> -1, before |-> NewState(<<>>), fixed |-> <<>>,
           validations |-> 0, outcome |-> "Pending", prev |-> "Pending"]

\* one completion call: which prompt, of which step, with which parameters
\* (temp in hundredths), and the snapshot the prompt embeds, if it embeds one
Call(kind, step, temp, thinking, ctx) ==
    [kind |-> kind, step |-> step, temp |-> temp, thinking |-> thinking,
     model |-> model_name, has_ctx |-> ctx # <<>>,
     ctx |-> IF ctx # <<>> THEN ctx[1] ELSE GetPromptContext(NewState(<<>>))]

\* _call_llm(prompt, temp, thinking) with backend outcome out, recorded
Record(call, out) ==
    /\ calls' = Append(calls, call)
    /\ all_failed' = (all_failed /\ out.kind = "error")

\* vote_count of solve_step_with_voting
VoteCount == 3

\* main has not been called
NoDate == [year |-> 0, month |-> 0]
NoWorkflow == [name |-> "none", e |-> NoErr, year |-> 0, month |-> 0, logseq |-> FALSE]

\* _call_llm has not been called
NotCalled == [called |-> FALSE, raised |-> FALSE, e |-> NoErr, val |-> <<>>]

\* nothing is called outside run: vote_count has its default
AsideIdle ==
    /\ vote_count = VoteCount
    /\ response = [shape |-> "none", msg |-> <<>>, parts |-> <<>>]
    /\ returned = NotCalled
    /\ content = <<>>
    /\ verdict = <<>>
    /\ argv = <<>>
    /\ today = NoDate
    /\ workflow = NoWorkflow
    /\ file = <<>>
    /\ entered = <<>>

\* AtomicSolver(api_key) and the entry of run(goal, context)
Init ==
    /\ goal \in Goals
    /\ state \in {NewState(c) : c \in Contexts}
    /\ model_name = FlashModel
    /\ steps = JNone
    /\ number_of_steps = 0
    /\ models = JNone
    /\ i = 0
    /\ candidates = <<>>
    /\ new_content = <<>>
    /\ pc = "decompose"
    /\ err = NoErr
    /\ result = <<>>
    /\ calls = <<>>
    /\ all_failed = TRUE
    /\ reply = <<>>
    /\ cur = NoStep
    /\ AsideIdle

\* run raises exception e
Raise(e) == pc' = "raised" /\ err' = e

\* steps = self.decompose(state, goal)
DecomposeStep ==
    /\ pc = "decompose"
    /\ \E out \in DecomposeOutcomes :
         /\ steps' = Decompose(goal, out)
         /\ reply' = CallLLM(out)
         /\ Record(Call("decompose", -1, 100, TRUE, <<GetPromptContext(state)>>), out)
    /\ pc' = "len"
    /\ UNCHANGED <<goal, state, model_name, number_of_steps, models, i, candidates,
                   new_content, err, result, cur>>
    /\ UNCHANGED aside

\* number_of_steps = len(steps)
LenStep ==
    /\ pc = "len"
    /\ IF HasLen(steps)
       THEN /\ number_of_steps' = PyLen(steps)
            /\ pc' = "choose_model"
            /\ err' = err
       ELSE /\ Raise("TypeError")
            /\ number_of_steps' = number_of_steps
    /\ UNCHANGED <<goal, state, model_name, steps, models, i, candidates,
                   new_content, result, calls, all_failed, reply, cur>>
    /\ UNCHANGED aside

\* the router prompt can be formatted
RouterPromptFormats ==
    \* format(value, spec) of a str value: TRUE when the format specification is
    \* accepted, FALSE when format raises ValueError.  The specification is read as
    \* [[fill]align][sign][z][#][0][width][grouping][.precision][type]; what is
    \* left after the precision may be one type character at most, and a str takes
    \* no sign, no z, no #, no = alignment, no grouping and no type but s.
    LET FormatStrOk(spec) ==
            LET n == Len(spec)
                At(p) == IF p <= n THEN spec[p] ELSE ""
                Aligns == {"<", ">", "=", "^"}
                filled == At(2) \in Aligns
                aligned == filled \/ At(1) \in Aligns
                align == IF filled THEN At(2) ELSE IF aligned THEN At(1) ELSE ""
                p1 == IF filled THEN 3 ELSE IF aligned THEN 2 ELSE 1
                sign == At(p1) \in {"+", "-", " "}
                p2 == IF sign THEN p1 + 1 ELSE p1
                z == At(p2) = "z"
                p3 == IF z THEN p2 + 1 ELSE p2
                alt == At(p3) = "#"
                p4 == IF alt THEN p3 + 1 ELSE p3
                zero == ~filled /\ At(p4) = "0"
                p5 == IF zero THEN p4 + 1 ELSE p4
                p6 == Min({q \in p5..(n + 1) : ~IsDigit(At(q))})
                group == At(p6) \in {",", "_"}
                p7 == IF group THEN p6 + 1 ELSE p6
                dot == At(p7) = "."
                p8 == IF dot THEN Min({q \in (p7 + 1)..(n + 1) : ~IsDigit(At(q))}) ELSE p7
            IN /\ dot => p8 > p7 + 1
               /\ n - p8 + 1 <= 1
               /\ At(p8) \in {"", "s"}
               /\ ~sign /\ ~z /\ ~alt /\ ~group
               /\ align # "="
    IN
    \* the format specification of the nested replacement field of the router
    \* prompt: the f-string holds its example JSON object in single braces, so the
    \* text after the colon of the first classification is taken as the format
    \* specification of the str "task_id"
    LET ExampleSpec == <<" ", "0", ",", " ", "\"", "m", "o", "d", "e", "l", "\"",
            ":", " ", "\"", "A", "\"", ",", " ", "\"", "r", "a", "t", "i", "o",
            "n", "a", "l", "e", "\"", ":", " ", "\"", "f", "o", "r", "m", "a", "t",
            "t", "i", "n", "g", "\"">>
    IN
                       FormatStrOk(ExampleSpec)

\* models = self.choose_model(steps), up to the prompt
ChooseModelPrompt ==
    /\ pc = "choose_model"
    /\ IF RouterPromptFormats
       THEN pc' = "route" /\ err' = err
       ELSE Raise("ValueError")
    /\ UNCHANGED <<goal, state, model_name, steps, number_of_steps, models, i,
                   candidates, new_content, result, calls, all_failed, reply, cur>>
    /\ UNCHANGED aside

NextRun == DecomposeStep \/ LenStep \/ ChooseModelPrompt

\* run(goal, context) as the code runs it
SpecRun == Init /\ [][NextRun]_vars

(***************************************************************************)
(* The run from the routing call on (choose_model after its prompt, then   *)
(* the loop over the steps)                                                *)
(***************************************************************************)

KeyClassifications == <<"c", "l", "a", "s", "s", "i", "f", "i", "c", "a",
    "t", "i", "o", "n", "s">>
KeyTaskId == <<"t", "a", "s", "k", "_", "i", "d">>
KeyModel == <<"m", "o", "d", "e", "l">>
\* one entry of the router's answer
Classification(task_id, model) ==
    LET Formatting == <<"f", "o", "r", "m", "a", "t", "t", "i", "n", "g">>
    IN
    LET KeyRationale == <<"r", "a", "t", "i", "o", "n", "a", "l", "e">>
    IN
    JDict(<<<<KeyTaskId, JInt(task_id)>>, <<KeyModel, JStr(<<model>>)>>,
            <<KeyRationale, JStr(Formatting)>>>>)

\* the classification lists the backend answers with: one entry per step of the
\* longest plan (A for the even task ids, B for the odd ones), the same entries
\* from the last task id down to the first, one entry only (with a model that
\* is neither A nor B), an entry without the key "model", and a str in place
\* of the list
Routings ==
    <<JList([m \in 1..MaxSteps |-> Classification(m - 1, IF m % 2 = 1 THEN "A" ELSE "B")]),
      JList([m \in 1..MaxSteps |->
               Classification(MaxSteps - m, IF (MaxSteps - m) % 2 = 0 THEN "A" ELSE "B")]),
      JList(<<Classification(0, "C")>>),
      JList(<<JDict(<<<<KeyTaskId, JInt(0)>>>>)>>),
      JStr(TextAB)>>

\* what the backend does on the routing call
RouteOutcomes ==
    \* the router's answer with the given classifications
    LET RouterResponse(cls) == JDict(<<<<KeyClassifications, cls>>>>)
    IN
    {BackendText(Dumps(RouterResponse(Routings[n]))) : n \in 1..Len(Routings)}
    \cup {BackendText(Dumps(JList(<<>>))), BackendText(Dumps(JDict(<<>>)))}
    \cup {BackendText(Chatty), BackendError(Timeout)}

\* choose_model with a fallback: an answer that cannot be decoded classifies
\* every task as A
ChooseModelFallback(out) ==
    LET raw == CallLLM(out)
        clean_json == Strip(RemoveFences(raw))
        r == JsonLoads(clean_json)
    IN IF ~r.ok
       THEN [ok |-> TRUE, e |-> NoErr,
             val |-> JList([m \in 1..MaxSteps |-> Classification(m - 1, "A")])]
       ELSE IF r.val.k # "dict" THEN [ok |-> FALSE, e |-> "TypeError", val |-> JNone]
       ELSE IF ~DictHas(r.val.v, KeyClassifications)
            THEN [ok |-> FALSE, e |-> "KeyError", val |-> JNone]
       ELSE [ok |-> TRUE, e |-> NoErr, val |-> DictGet(r.val.v, KeyClassifications)]

\* choose_model from the call on: the decoded answer's "classifications".
\* ok = FALSE with the exception that json.loads or the subscript raises.
ChooseModel(out) ==
    LET raw == CallLLM(out)
        clean_json == Strip(RemoveFences(raw))
        r == JsonLoads(clean_json)
    IN IF ~r.ok THEN [ok |-> FALSE, e |-> "JSONDecodeError", val |-> JNone]
       ELSE IF r.val.k # "dict" THEN [ok |-> FALSE, e |-> "TypeError", val |-> JNone]
       ELSE IF ~DictHas(r.val.v, KeyClassifications)
            THEN [ok |-> FALSE, e |-> "KeyError", val |-> JNone]
       ELSE [ok |-> TRUE, e |-> NoErr, val |-> DictGet(r.val.v, KeyClassifications)]

\* raw = self._call_llm(prompt_template, thinking=True) ... return steps['classifications']
ChooseModelCall ==
    /\ pc = "route"
    /\ \E out \in RouteOutcomes :
         LET r == ChooseModel(out)
         IN /\ Record(Call("route", -1, 100, TRUE, <<>>), out)
            /\ reply' = CallLLM(out)
            /\ IF r.ok THEN models' = r.val /\ pc' = "loop" /\ err' = err
               ELSE models' = models /\ Raise(r.e)
    /\ UNCHANGED <<goal, state, model_name, steps, number_of_steps, i, candidates,
                   new_content, result, cur>>
    /\ UNCHANGED aside

\* models[n]: ok = FALSE with the exception the subscript raises
Subscript(ms, n) ==
    IF ms.k \in {"list", "str"}
    THEN (IF n < Len(ms.v) THEN [ok |-> TRUE, e |-> NoErr, val |-> Items(ms)[n + 1]]
          ELSE [ok |-> FALSE, e |-> "IndexError", val |-> JNone])
    ELSE IF ms.k = "dict" THEN [ok |-> FALSE, e |-> "KeyError", val |-> JNone]
    ELSE [ok |-> FALSE, e |-> "TypeError", val |-> JNone]

\* model['model']: ok = FALSE with the exception the subscript raises
ModelOf(m) ==
    IF m.k # "dict" THEN [ok |-> FALSE, e |-> "TypeError", val |-> JNone]
    ELSE IF ~DictHas(m.v, KeyModel) THEN [ok |-> FALSE, e |-> "KeyError", val |-> JNone]
    ELSE [ok |-> TRUE, e |-> NoErr, val |-> DictGet(m.v, KeyModel)]

\* the step and the classification of the current iteration
Step == Items(steps)[i + 1]
Model == Subscript(models, i).val

\* thinking of the candidate calls: off for model "A", on otherwise
Thinking(m) == ~(ModelOf(m).val.k = "str" /\ ModelOf(m).val.v = <<"A">>)

\* the loop header of run and the entry of solve_step_with_voting: the next
\* step if there is one, the switch of the model, the step's classification;
\* after the last step, run returns the solution
LoopStep ==
    LET Last(v) == Items(v)[Len(v.v)]
    IN
    \* v[-1] of a non-empty v: the last element of a list, the last character of
    \* a str; a dict decoded from JSON has only str keys, so v[-1] is a KeyError
    LET HasLast(v) == v.k \in {"str", "list"}
    IN
    \* i == v for the loop index i: an int, or a bool (True == 1, False == 0)
    LET EqInt(v, n) ==
            \/ v.k = "int" /\ v.v = n
            \/ v.k = "lit" /\ v.v = "True" /\ n = 1
            \/ v.k = "lit" /\ v.v = "False" /\ n = 0
    IN
    /\ pc = "loop"
    /\ IF i >= Len(Items(steps))
       THEN /\ pc' = "done"
            /\ result' = state.solution_content
            /\ UNCHANGED <<model_name, err, cur, candidates>>
       ELSE /\ result' = result
            /\ candidates' = <<>>
            /\ IF ~HasLast(steps)
               THEN Raise("KeyError") /\ UNCHANGED <<model_name, cur>>
               ELSE /\ model_name' = IF EqInt(Last(steps), i) THEN ProModel ELSE model_name
                    /\ IF ~Subscript(models, i).ok
                       THEN Raise(Subscript(models, i).e) /\ cur' = cur
                       ELSE IF ~ModelOf(Model).ok
                            THEN Raise(ModelOf(Model).e) /\ cur' = cur
                            ELSE /\ pc' = "generate"
                                 /\ err' = err
                                 /\ cur' = [NoStep EXCEPT !.i = i, !.before = state,
                                                         !.prev = cur.outcome]
    /\ UNCHANGED <<goal, state, steps, number_of_steps, models, i, new_content,
                   calls, all_failed, reply>>
    /\ UNCHANGED aside

ShortText == <<"o", "k", "!", "!">>
\* what the backend does on a candidate call
CandidateOutcomes ==
    LET TaggedBeta == <<"<", "b", ">", "b", "e", "t", "a", "!", "<", "/", "b", ">">>
    IN
    LET Alpha == <<"a", "l", "p", "h", "a">>
    IN
    {BackendText(Alpha), BackendText(TaggedBeta), BackendNoCandidates, BackendError(Timeout)}

\* candidate calls whose prompt embeds the snapshot the run started with
GenerateStepStale ==
    /\ pc = "generate"
    /\ \E out \in CandidateOutcomes :
         /\ candidates' = Append(candidates, CallLLM(out))
         /\ Record(Call("solve", i, 100 + 25 * Len(candidates), Thinking(Model),
                        <<GetPromptContext(NewState(state.context))>>), out)
    /\ pc' = IF Len(candidates) + 1 < vote_count THEN "generate" ELSE "shuffle"
    /\ UNCHANGED <<goal, state, model_name, steps, number_of_steps, models, i,
                   new_content, err, result, reply, cur>>
    /\ UNCHANGED aside

\* for i in range(vote_count): candidates.append(self._call_llm(...))
GenerateStep ==
    /\ pc = "generate"
    /\ \E out \in CandidateOutcomes :
         /\ candidates' = Append(candidates, CallLLM(out))
         /\ Record(Call("solve", i, 100 + 25 * Len(candidates), Thinking(Model),
                        <<GetPromptContext(state)>>), out)
    /\ pc' = IF Len(candidates) + 1 < vote_count THEN "generate" ELSE "shuffle"
    /\ UNCHANGED <<goal, state, model_name, steps, number_of_steps, models, i,
                   new_content, err, result, reply, cur>>
    /\ UNCHANGED aside

\* random.shuffle(candidates)
ShuffleStep ==
    \* the orders random.shuffle can leave a list of n elements in
    LET Shuffles(n) == Permutations(1..n)
    IN
    /\ pc = "shuffle"
    /\ \E perm \in Shuffles(Len(candidates)) :
         candidates' = [n \in 1..Len(candidates) |-> candidates[perm[n]]]
    /\ pc' = "judge"
    /\ UNCHANGED <<goal, state, model_name, steps, number_of_steps, models, i,
                   new_content, err, result, calls, all_failed, reply, cur>>
    /\ UNCHANGED aside

\* the candidates the judge prompt holds: candidates[0], [1] and [2]
JudgeSlots == 3
Shown(cands) == SubSeq(cands, 1, JudgeSlots)

\* the judge prompt (it raises IndexError when a slot has no candidate), then
\* winner_raw = self._call_llm(judge_prompt, thinking=False) ... return winner_raw
JudgeStep ==
    LET BlankTag == <<"<", "i", ">", " ", "<", "/", "i", ">">>
    IN
    \* what solve_step_with_voting returns when the judge call does out
    LET Winner(out) == RemoveTags(CallLLM(out))
    IN
    \* what the backend does on the judge call: it echoes one of the candidates it
    \* was shown, or answers with another text, or fails
    LET JudgeOutcomes(cands) ==
            LET Gamma == <<"g", "a", "m", "m", "a">>
            IN
            {BackendText(cands[n]) : n \in 1..Len(cands)}
            \cup {BackendText(Gamma), BackendText(ShortText), BackendText(BlankTag),
                  BackendNoCandidates, BackendError(Timeout)}
    IN
    /\ pc = "judge"
    /\ IF Len(candidates) < JudgeSlots
       THEN /\ Raise("IndexError")
            /\ UNCHANGED <<new_content, calls, all_failed, cur>>
       ELSE /\ \E out \in JudgeOutcomes(Shown(candidates)) :
                 /\ new_content' = Winner(out)
                 /\ Record(Call("judge", i, 100, FALSE, <<>>), out)
            /\ pc' = "validate"
            /\ err' = err
            /\ cur' = [cur EXCEPT !.outcome = "Solved"]
    /\ UNCHANGED <<goal, state, model_name, steps, number_of_steps, models, i,
                   candidates, result, reply>>
    /\ UNCHANGED aside

\* a section without its label
SectionNoLabel(step, text) == <<"\n">> \o text

\* f"\n\n--- {step} ---\n{new_content}"
Section(step, text) ==
    <<"\n", "\n", "-", "-", "-", " ">> \o PyStr(step) \o <<" ", "-", "-", "-", "\n">> \o text

\* accumulation that appends the last step's text too
AccumulateAppend(solution, n, step, text) == solution \o Section(step, text)

\* the solution after an accepted text: appended as a section if steps remain,
\* the text alone otherwise
Accumulate(solution, n, step, text) ==
    IF n + 1 < number_of_steps THEN solution \o Section(step, text) ELSE text

\* is_valid, msg = UniversalValidator.validate(new_content) and the branch taken
ValidateStep ==
    /\ pc = "validate"
    /\ LET v == Validate(new_content)
       IN IF v[1]
          THEN /\ state' = [state EXCEPT
                              !.solution_content = Accumulate(@, i, Step, new_content),
                              !.last_error = None]
               /\ cur' = [cur EXCEPT !.validations = 1, !.outcome = "Validated"]
               /\ i' = i + 1
               /\ pc' = "loop"
          ELSE /\ state' = [state EXCEPT !.last_error = v[2]]
               /\ cur' = [cur EXCEPT !.validations = 1]
               /\ i' = i
               /\ pc' = "repair"
    /\ candidates' = <<>>
    /\ UNCHANGED <<goal, model_name, steps, number_of_steps, models, new_content,
                   err, result, calls, all_failed, reply>>
    /\ UNCHANGED aside

\* what the backend does on the repair call
RepairOutcomes ==
    LET FixedText == <<"f", "i", "x", "e", "d">>
    IN
                  {BackendText(FixedText), BackendNoCandidates, BackendError(Timeout)}

\* the solution after an accepted repair
Repair(solution, n, step, text) == solution \o <<"\n">> \o text

\* a repair that is tried again when the fix is rejected
RepairStepRetry ==
    /\ pc = "repair"
    /\ \E out \in RepairOutcomes :
         LET fixed_content == CallLLM(out)
         IN /\ Record(Call("fix", i, 100, FALSE, <<>>), out)
            /\ IF Validate(fixed_content)[1]
               THEN /\ state' = [state EXCEPT
                                   !.solution_content = Repair(@, i, Step, fixed_content)]
                    /\ cur' = [cur EXCEPT !.fixed = fixed_content,
                                          !.validations = @ + 1, !.outcome = "Repaired"]
                    /\ i' = i + 1
                    /\ pc' = "loop"
               ELSE /\ state' = state
                    /\ cur' = [cur EXCEPT !.fixed = fixed_content,
                                          !.validations = @ + 1, !.outcome = "Skipped"]
                    /\ i' = i
                    /\ pc' = "repair"
    /\ UNCHANGED <<goal, model_name, steps, number_of_steps, models, candidates,
                   new_content, err, result, reply>>
    /\ UNCHANGED aside

\* a repair that resets last_error when the fix is accepted
RepairStepClears ==
    /\ pc = "repair"
    /\ \E out \in RepairOutcomes :
         LET fixed_content == CallLLM(out)
         IN /\ Record(Call("fix", i, 100, FALSE, <<>>), out)
            /\ IF Validate(fixed_content)[1]
               THEN /\ state' = [state EXCEPT
                                   !.solution_content = Repair(@, i, Step, fixed_content),
                                   !.last_error = None]
                    /\ cur' = [cur EXCEPT !.fixed = fixed_content,
                                          !.validations = @ + 1, !.outcome = "Repaired"]
               ELSE /\ state' = state
                    /\ cur' = [cur EXCEPT !.fixed = fixed_content,
                                          !.validations = @ + 1, !.outcome = "Skipped"]
    /\ i' = i + 1
    /\ pc' = "loop"
    /\ UNCHANGED <<goal, model_name, steps, number_of_steps, models, candidates,
                   new_content, err, result, reply>>
    /\ UNCHANGED aside

\* fixed_content = self._call_llm(fix_prompt) and the check of the fix
RepairStep ==
    /\ pc = "repair"
    /\ \E out \in RepairOutcomes :
         LET fixed_content == CallLLM(out)
         IN /\ Record(Call("fix", i, 100, FALSE, <<>>), out)
            /\ IF Validate(fixed_content)[1]
               THEN /\ state' = [state EXCEPT
                                   !.solution_content = Repair(@, i, Step, fixed_content)]
                    /\ cur' = [cur EXCEPT !.fixed = fixed_content,
                                          !.validations = @ + 1, !.outcome = "Repaired"]
               ELSE /\ state' = state
                    /\ cur' = [cur EXCEPT !.fixed = fixed_content,
                                          !.validations = @ + 1, !.outcome = "Skipped"]
    /\ i' = i + 1
    /\ pc' = "loop"
    /\ UNCHANGED <<goal, model_name, steps, number_of_steps, models, candidates,
                   new_content, err, result, reply>>
    /\ UNCHANGED aside

\* run at the routing call of choose_model (line 114): decompose has returned
\* a value that len accepts.  The router prompt is taken as built here: the
\* behaviours from this state on are those of lines 114-256.  ChooseModelPrompt
\* shows that run, entered at its top, raises before it gets here.
InitRouted ==
    /\ goal \in Goals
    /\ state \in {NewState(c) : c \in Contexts}
    /\ model_name = FlashModel
    /\ \E out \in DecomposeOutcomes :
         /\ steps = Decompose(goal, out)
         /\ calls = <<[kind |-> "decompose", step |-> -1, temp |-> 100, thinking |-> TRUE,
                       model |-> FlashModel, has_ctx |-> TRUE,
                       ctx |-> GetPromptContext(state)]>>
         /\ all_failed = (out.kind = "error")
         /\ reply = CallLLM(out)
    /\ HasLen(steps)
    /\ number_of_steps = PyLen(steps)
    /\ models = JNone
    /\ i = 0
    /\ candidates = <<>>
    /\ new_content = <<>>
    /\ pc = "route"
    /\ err = NoErr
    /\ result = <<>>
    /\ cur = NoStep
    /\ AsideIdle

Next ==
    \/ ChooseModelCall
    \/ LoopStep
    \/ GenerateStep
    \/ ShuffleStep
    \/ JudgeStep
    \/ ValidateStep
    \/ RepairStep

\* the routing call and the loop over the steps (lines 114-256)
Spec == InitRouted /\ [][Next]_vars

(***************************************************************************)
(* solve_step_with_voting called with a vote_count of its own              *)
(***************************************************************************)

\* the largest vote_count the function is called with
MaxVotes == 4

\* solve_step_with_voting(state, task, model, vote_count) at its entry, for
\* the one step of a plan
InitVoting ==
    /\ goal = GoalY
    /\ state \in {NewState(c) : c \in Contexts}
    /\ model_name = FlashModel
    /\ steps = Plan(1, ResearchX)
    /\ number_of_steps = 1
    /\ models \in {JList(<<Classification(0, m)>>) : m \in {"A", "B"}}
    /\ i = 0
    /\ candidates = <<>>
    /\ new_content = <<>>
    /\ pc = "generate"
    /\ err = NoErr
    /\ result = <<>>
    /\ calls = <<>>
    /\ all_failed = TRUE
    /\ reply = <<>>
    /\ cur = [NoStep EXCEPT !.i = 0, !.before = state]
    /\ vote_count \in 1..MaxVotes
    /\ response = [shape |-> "none", msg |-> <<>>, parts |-> <<>>]
    /\ returned = NotCalled
    /\ content = <<>>
    /\ verdict = <<>>
    /\ argv = <<>>
    /\ today = NoDate
    /\ workflow = NoWorkflow
    /\ file = <<>>
    /\ entered = <<>>

NextVoting == GenerateStep \/ ShuffleStep \/ JudgeStep

\* one call of solve_step_with_voting, up to its return
SpecVoting == InitVoting /\ [][NextVoting]_vars

(***************************************************************************)
(* AtomicSolver._call_llm on the responses of generate_content             *)
(***************************************************************************)

\* run is not being executed
RunIdle ==
    /\ goal = <<>>
    /\ state = NewState(<<>>)
    /\ model_name = FlashModel
    /\ steps = JNone
    /\ number_of_steps = 0
    /\ models = JNone
    /\ i = 0
    /\ candidates = <<>>
    /\ new_content = <<>>
    /\ pc = "idle"
    /\ err = NoErr
    /\ result = <<>>
    /\ calls = <<>>
    /\ all_failed = TRUE
    /\ reply = <<>>
    /\ cur = NoStep

\* the number of parts of a response
MaxParts == 3

\* a part of the first candidate's content: its text, or no text (None)
Part(t) == [has_text |-> TRUE, text |-> t]
\* the lists of n parts
RECURSIVE PartLists(_)
PartLists(n) ==
    LET Parts ==
            LET NoTextPart == [has_text |-> FALSE, text |-> <<>>]
            IN
                 {NoTextPart, Part(<<>>), Part(<<" ">>), Part(<<" ", "a">>), Part(<<"b", "\n">>)}
    IN
    IF n = 0 THEN {<<>>} ELSE {Append(l, q) : l \in PartLists(n - 1), q \in Parts}

\* What generate_content does: it raises an exception with message msg, or
\* returns a response whose candidates are None or empty, whose first
\* candidate has no content (None), whose content has no parts (None), or
\* whose content has a list of parts.
Raised(m) == [shape |-> "exception", msg |-> m, parts |-> <<>>]
\* str(e) of the AttributeError and of the TypeError the extraction raises
MsgNoContent == <<"'", "N", "o", "n", "e", "T", "y", "p", "e", "'", " ",
    "o", "b", "j", "e", "c", "t", " ", "h", "a", "s", " ", "n", "o", " ",
    "a", "t", "t", "r", "i", "b", "u", "t", "e", " ", "'", "p", "a", "r",
    "t", "s", "'">>
\* "".join(text_parts) for the parts that have a non-empty text
RECURSIVE JoinParts(_)
JoinParts(l) ==
    IF l = <<>> THEN <<>>
    ELSE (IF Head(l).has_text THEN Head(l).text ELSE <<>>) \o JoinParts(Tail(l))

\* the body of the try of _call_llm: the exception it ends with, its origin
\* (the client call or the extraction) and message, or the value it returns
TryBody(r) ==
    LET MsgNoParts == <<"'", "N", "o", "n", "e", "T", "y", "p", "e", "'", " ", "o",
            "b", "j", "e", "c", "t", " ", "i", "s", " ", "n", "o", "t", " ", "i",
            "t", "e", "r", "a", "b", "l", "e">>
    IN
    IF r.shape = "exception"
    THEN [exc |-> TRUE, from |-> "client", e |-> "Exception", msg |-> r.msg, val |-> <<>>]
    ELSE IF r.shape \in {"no_candidates", "empty_candidates"}
    THEN [exc |-> FALSE, from |-> "", e |-> NoErr, msg |-> <<>>, val |-> <<>>]
    ELSE IF r.shape = "no_content"
    THEN [exc |-> TRUE, from |-> "extraction", e |-> "AttributeError",
          msg |-> MsgNoContent, val |-> <<>>]
    ELSE IF r.shape = "no_parts"
    THEN [exc |-> TRUE, from |-> "extraction", e |-> "TypeError",
          msg |-> MsgNoParts, val |-> <<>>]
    ELSE [exc |-> FALSE, from |-> "", e |-> NoErr, msg |-> <<>>,
          val |-> Strip(JoinParts(r.parts))]

\* _call_llm with an except clause for the errors of the client call only
CallLLMClientErrors(r) ==
    LET b == TryBody(r)
    IN IF b.exc /\ b.from = "client"
       THEN [called |-> TRUE, raised |-> FALSE, e |-> NoErr, val |-> ApiError \o b.msg]
       ELSE IF b.exc THEN [called |-> TRUE, raised |-> TRUE, e |-> b.e, val |-> <<>>]
       ELSE [called |-> TRUE, raised |-> FALSE, e |-> NoErr, val |-> b.val]

\* _call_llm on response r: except Exception as e: return f"# API Error: {e}"
CallLLMResponse(r) ==
    LET b == TryBody(r)
    IN IF b.exc
       THEN [called |-> TRUE, raised |-> FALSE, e |-> NoErr, val |-> ApiError \o b.msg]
       ELSE [called |-> TRUE, raised |-> FALSE, e |-> NoErr, val |-> b.val]

InitAdapter ==
    LET Responses ==
            LET WithParts(l) == [shape |-> "parts", msg |-> <<>>, parts |-> l]
            IN
            LET Shaped(sh) == [shape |-> sh, msg |-> <<>>, parts |-> <<>>]
            IN
            {Raised(Timeout), Raised(<<>>)}
            \cup {Shaped(sh) : sh \in {"no_candidates", "empty_candidates", "no_content", "no_parts"}}
            \cup {WithParts(l) : l \in UNION {PartLists(n) : n \in 0..MaxParts}}
    IN
    /\ RunIdle
    /\ vote_count = VoteCount
    /\ response \in Responses
    /\ returned = NotCalled
    /\ content = <<>>
    /\ verdict = <<>>
    /\ argv = <<>>
    /\ today = NoDate
    /\ workflow = NoWorkflow
    /\ file = <<>>
    /\ entered = <<>>

\* text = self._call_llm(prompt)
CallStep ==
    /\ ~returned.called
    /\ returned' = CallLLMResponse(response)
    /\ UNCHANGED <<runVars, vote_count, response, content, verdict, argv, today,
                   workflow, file, entered>>

NextAdapter == CallStep

\* _call_llm called on a response of the backend
SpecAdapter == InitAdapter /\ [][NextAdapter]_vars

(***************************************************************************)
(* UniversalValidator.validate called on its own                           *)
(***************************************************************************)

\* the number of pieces a text under validation is made of
MaxTokens == 3

\* the pieces: a blank, a letter, a newline, the two refusal markers and a
\* text of four characters
Tokens == <<<<" ">>, <<"a">>, <<"\n">>, ICannot, IAmAnAI, ShortText>>

\* the texts made of n pieces
RECURSIVE TextsOf(_)
TextsOf(n) ==
    IF n = 0 THEN {<<>>}
    ELSE {t \o Tokens[k] : t \in TextsOf(n - 1), k \in 1..Len(Tokens)}

InitValidate ==
    \* the texts validate is called on
    LET Texts == UNION {TextsOf(n) : n \in 0..MaxTokens}
    IN
    /\ RunIdle
    /\ vote_count = VoteCount
    /\ response = [shape |-> "none", msg |-> <<>>, parts |-> <<>>]
    /\ returned = NotCalled
    /\ content \in Texts
    /\ verdict = <<>>
    /\ argv = <<>>
    /\ today = NoDate
    /\ workflow = NoWorkflow
    /\ file = <<>>
    /\ entered = <<>>

\* is_valid, msg = UniversalValidator.validate(content)
ValidateCall ==
    /\ verdict = <<>>
    /\ verdict' = Validate(content)
    /\ UNCHANGED <<runVars, vote_count, response, returned, content, argv, today,
                   workflow, file, entered>>

NextValidate == ValidateCall

\* validate called on a text
SpecValidate == InitValidate /\ [][NextValidate]_vars

(***************************************************************************)
(* daily_logger.main: the dispatch on the command line                     *)
(***************************************************************************)

\* args.monthly_summary: None without the flag, True for the flag alone, the
\* number for the flag with a number
NoFlag == [k |-> "None", n |-> 0]
FlagAlone == [k |-> "True", n |-> 0]
CommandLines ==
    \* the command lines argparse accepts: at most one of --sow, --eow and
    \* --monthly-summary [MONTH], with or without --logseq
    LET Args ==
            LET Month(n) == [k |-> "int", n |-> n]
            IN
            {[sow |-> a, eow |-> b, monthly_summary |-> m, logseq |-> l] :
                a \in BOOLEAN, b \in BOOLEAN, l \in BOOLEAN,
                m \in {NoFlag, FlagAlone} \cup {Month(n) : n \in 0..13}}
    IN
    {a \in Args : Cardinality({f \in {"sow", "eow", "monthly"} :
                                  \/ f = "sow" /\ a.sow
                                  \/ f = "eow" /\ a.eow
                                  \/ f = "monthly" /\ a.monthly_summary # NoFlag}) <= 1}

\* the days the script is run on, as far as the summary depends on them
Dates == {[year |-> y, month |-> m] : y \in {2025, 2026}, m \in 1..12}

\* the names of the parameters of the functions main and run_daily_log call
\* and the names of the keyword arguments they pass
ParamsOf(f) ==
    IF f = "run_monthly_summary" THEN {"month_arg", "logseq"}
    ELSE IF f = "get_log_directory" THEN {}
    ELSE {"logseq"}
KeywordsTo(f) ==
    IF f = "run_monthly_summary" THEN {"month", "logseq"} ELSE {"logseq"}

\* a call with keyword arguments binds when every keyword names a parameter;
\* it raises TypeError otherwise
Binds(f) == KeywordsTo(f) \subseteq ParamsOf(f)

\* what a workflow did
Ran(name, y, m, l) == [name |-> name, e |-> NoErr, year |-> y, month |-> m, logseq |-> l]
Failed(e, l) == [name |-> "raised", e |-> e, year |-> 0, month |-> 0, logseq |-> l]

\* run_monthly_summary(month_arg, logseq): the month and year it summarizes,
\* or nothing for a number outside 1..12
RunMonthlySummary(month_arg, d, l) ==
    IF month_arg.k = "True"
    THEN (IF d.month = 1 THEN Ran("monthly", d.year - 1, 12, l)
          ELSE Ran("monthly", d.year, d.month - 1, l))
    ELSE IF month_arg.k = "int"
    THEN (IF 1 <= month_arg.n /\ month_arg.n <= 12
          THEN Ran("monthly", d.year, month_arg.n, l)
          ELSE Ran("invalid month", 0, 0, l))
    ELSE Ran("internal error", 0, 0, l)

\* run_daily_log(logseq): refused for logseq, else the log directory is asked
\* for first
RunDailyLog(l) ==
    IF l THEN Ran("daily refused", 0, 0, l)
    ELSE IF ~Binds("get_log_directory") THEN Failed("TypeError", l)
    ELSE Ran("daily", 0, 0, l)

InitMain ==
    /\ RunIdle
    /\ vote_count = VoteCount
    /\ response = [shape |-> "none", msg |-> <<>>, parts |-> <<>>]
    /\ returned = NotCalled
    /\ content = <<>>
    /\ verdict = <<>>
    /\ argv \in CommandLines
    /\ today \in Dates
    /\ workflow = NoWorkflow
    /\ file = <<>>
    /\ entered = <<>>

\* main(): args = parser.parse_args() and the if / elif chain
Main ==
    /\ workflow = NoWorkflow
    /\ workflow' =
         IF argv.sow THEN Ran("sow", 0, 0, argv.logseq)
         ELSE IF argv.eow THEN Ran("eow", 0, 0, argv.logseq)
         ELSE IF argv.monthly_summary # NoFlag
         THEN (IF Binds("run_monthly_summary")
               THEN RunMonthlySummary(argv.monthly_summary, today, argv.logseq)
               ELSE Failed("TypeError", argv.logseq))
         ELSE RunDailyLog(argv.logseq)
    /\ UNCHANGED <<runVars, vote_count, response, returned, content, verdict, argv,
                   today, file, entered>>

NextMain == Main

\* the script run on a command line
SpecMain == InitMain /\ [][NextMain]_vars

(***************************************************************************)
(* daily_logger: the daily log file, merged run after run                  *)
(***************************************************************************)

\* the most runs on one day
MaxRuns == 3

DAILY_SECTION_ORDER ==
    <<"What I did", "What's next", "What broke or got weird", "Productivity Score",
      "Quick Insights">>

NotAvailable == <<"-", " ", "N", "/", "A">>
Bullet == <<"-", " ">>
DAILY_SECTION_HEADERS ==
    LET HeaderInsights == <<"#", "#", " ", "Q", "u", "i", "c", "k", " ", "I", "n",
            "s", "i", "g", "h", "t", "s">>
    IN
    LET HeaderScore == <<"#", "#", " ", "P", "r", "o", "d", "u", "c", "t", "i",
            "v", "i", "t", "y", " ", "S", "c", "o", "r", "e">>
    IN
    LET HeaderBroke == <<"#", "#", " ", "W", "h", "a", "t", " ", "b", "r", "o",
            "k", "e", " ", "o", "r", " ", "g", "o", "t", " ", "w", "e", "i", "r",
            "d">>
    IN
    LET HeaderNext == <<"#", "#", " ", "W", "h", "a", "t", "'", "s", " ", "n", "e",
            "x", "t">>
    IN
    LET HeaderDid == <<"#", "#", " ", "W", "h", "a", "t", " ", "I", " ", "d", "i",
            "d">>
    IN
    [key \in {DAILY_SECTION_ORDER[n] : n \in 1..Len(DAILY_SECTION_ORDER)} |->
        CASE key = "What I did" -> HeaderDid
          [] key = "What's next" -> HeaderNext
          [] key = "What broke or got weird" -> HeaderBroke
          [] key = "Productivity Score" -> HeaderScore
          [] key = "Quick Insights" -> HeaderInsights]

\* the entries of the runs: get_bullet_points gives a list of non-empty
\* stripped lines, get_daily_productivity_score a number from 1 to 5
DailyInputs ==
    \* collect_all_daily_inputs(): what the user enters in one run
    LET NewInputs(did, next, broke, score, insights) ==
            [key \in DOMAIN DAILY_SECTION_HEADERS |->
                CASE key = "What I did" -> did
                  [] key = "What's next" -> next
                  [] key = "What broke or got weird" -> broke
                  [] key = "Productivity Score" -> score
                  [] key = "Quick Insights" -> insights]
    IN
    LET Idea == <<"i", "d", "e", "a">>
    IN
    LET Shipped == <<"s", "h", "i", "p", "p", "e", "d">>
    IN
    {NewInputs(did, <<>>, <<>>, score, insights) :
        did \in {<<>>, <<Shipped>>}, score \in 1..5, insights \in {<<>>, <<Idea>>}}

\* f.readlines(): the lines of a text, each with its line end
RECURSIVE ReadLines(_)
ReadLines(text) ==
    LET ends == {p \in 1..Len(text) : text[p] = "\n"}
    IN IF text = <<>> THEN <<>>
       ELSE IF ends = {} THEN <<text>>
       ELSE <<SubSeq(text, 1, Min(ends))>> \o ReadLines(SubSeq(text, Min(ends) + 1, Len(text)))

\* f.writelines(output_lines)
RECURSIVE WriteLines(_)
WriteLines(output_lines) ==
    IF output_lines = <<>> THEN <<>>
    ELSE Head(output_lines) \o WriteLines(Tail(output_lines))

\* current_section_key = None
NoSection == "<None>"

\* parsed_content = {key: [] for key in DAILY_SECTION_ORDER}
EmptyContent == [key \in DOMAIN DAILY_SECTION_HEADERS |-> <<>>]

\* the for loop of parse_existing_daily_file over the lines of the file
RECURSIVE ParseLines(_, _, _)
ParseLines(lines, current_section_key, parsed_content) ==
    IF lines = <<>> THEN parsed_content
    ELSE LET stripped_line == Strip(Head(lines))
             matched == {n \in 1..Len(DAILY_SECTION_ORDER) :
                            stripped_line = DAILY_SECTION_HEADERS[DAILY_SECTION_ORDER[n]]}
         IN IF matched # {}
            THEN ParseLines(Tail(lines), DAILY_SECTION_ORDER[Min(matched)], parsed_content)
            ELSE IF /\ current_section_key # NoSection
                    /\ stripped_line # <<>>
                    /\ StartsAt(stripped_line, 1, Bullet)
            THEN ParseLines(Tail(lines), current_section_key,
                            [parsed_content EXCEPT ![current_section_key] =
                                                       Append(@, stripped_line)])
            ELSE ParseLines(Tail(lines), current_section_key, parsed_content)

\* parse_existing_daily_file(file_path); the empty text stands for no file
ParseExistingDailyFile(text) ==
    IF text = <<>> THEN EmptyContent
    ELSE ParseLines(ReadLines(text), NoSection, EmptyContent)

\* re.fullmatch(r"- (\d/5)", old_score_line)
FullMatchScore(line) ==
    /\ Len(line) = 5
    /\ SubSeq(line, 1, 2) = Bullet
    /\ IsDigit(line[3])
    /\ SubSeq(line, 4, 5) = <<"/", "5">>

\* f"- ~~{match.group(1)}~~"
Strike(line) == Bullet \o <<"~", "~">> \o SubSeq(line, 3, 5) \o <<"~", "~">>

\* a score history that drops the old lines that are no plain score
ProcessedScoreHistoryPlainOnly(old_lines, score) ==
    LET kept == SelectSeq(old_lines, FullMatchScore)
    IN Append([n \in 1..Len(kept) |-> Strike(kept[n])],
              Bullet \o IntToText(score) \o <<"/", "5">>)

\* processed_score_history: the old score lines, a plain score struck
\* through, the placeholder dropped, then the new score
ProcessedScoreHistory(old_lines, score) ==
    LET Kept(line) == FullMatchScore(line) \/ line # NotAvailable
        kept == SelectSeq(old_lines, Kept)
    IN Append([n \in 1..Len(kept) |->
                   IF FullMatchScore(kept[n]) THEN Strike(kept[n]) ELSE kept[n]],
              Bullet \o IntToText(score) \o <<"/", "5">>)

\* current_section_content_lines of a section
SectionContentLines(section_key, existing_content, new_inputs) ==
    \* combined_items: the old lines of a section, then the new entries
    LET CombinedItems(old_lines, new_items) ==
            old_lines \o [n \in 1..Len(new_items) |-> Bullet \o new_items[n]]
    IN
    IF section_key = "Productivity Score"
    THEN ProcessedScoreHistory(existing_content[section_key], new_inputs[section_key])
    ELSE CombinedItems(existing_content[section_key], new_inputs[section_key])

\* the lines a section adds to output_lines
SectionOutput(section_key, existing_content, new_inputs) ==
    LET lines == SectionContentLines(section_key, existing_content, new_inputs)
    IN IF section_key = "Quick Insights" /\ lines = <<>> THEN <<>>
       ELSE <<DAILY_SECTION_HEADERS[section_key] \o <<"\n">>>>
            \o (IF lines # <<>>
                THEN [n \in 1..Len(lines) |-> lines[n] \o <<"\n">>]
                ELSE <<NotAvailable \o <<"\n">>>>)
            \o <<<<"\n">>>>

\* the for loop of generate_daily_output_lines, from section n on
RECURSIVE SectionsFrom(_, _, _)
SectionsFrom(n, existing_content, new_inputs) ==
    IF n > Len(DAILY_SECTION_ORDER) THEN <<>>
    ELSE SectionOutput(DAILY_SECTION_ORDER[n], existing_content, new_inputs)
         \o SectionsFrom(n + 1, existing_content, new_inputs)

\* generate_daily_output_lines(existing_content, new_inputs, today_date_str)
GenerateDailyOutputLines(existing_content, new_inputs, today_date_str) ==
    LET TitlePrefix == <<"#", " ", "D", "a", "i", "l", "y", " ", "L", "o", "g",
            " ", "-", " ">>
    IN
    <<TitlePrefix \o today_date_str \o <<"\n", "\n">>>>
    \o SectionsFrom(1, existing_content, new_inputs)

\* no daily log file yet
InitDaily ==
    /\ RunIdle
    /\ vote_count = VoteCount
    /\ response = [shape |-> "none", msg |-> <<>>, parts |-> <<>>]
    /\ returned = NotCalled
    /\ content = <<>>
    /\ verdict = <<>>
    /\ argv = <<>>
    /\ today = NoDate
    /\ workflow = NoWorkflow
    /\ file = <<>>
    /\ entered = <<>>

\* one run on the day: the entries are collected, the file of the day is
\* parsed, merged with the entries and written back
DailyLogStep ==
    LET TodayDateStr == <<"2", "0", "2", "6", "-", "1", "1", "-", "0", "4">>
    IN
    /\ Len(entered) < MaxRuns
    /\ \E new_user_inputs \in DailyInputs :
         /\ file' = WriteLines(GenerateDailyOutputLines(ParseExistingDailyFile(file),
                                                        new_user_inputs, TodayDateStr))
         /\ entered' = Append(entered, new_user_inputs)
    /\ UNCHANGED <<runVars, vote_count, response, returned, content, verdict, argv,
                   today, workflow>>

NextDaily == DailyLogStep

\* the runs of the daily log on one day
SpecDaily == InitDaily /\ [][NextDaily]_vars

(***************************************************************************)
(* Properties                                                              *)
(***************************************************************************)

\* the number of completion calls of a kind made for step k
Count(kind, k) ==
    Cardinality({n \in 1..Len(calls) : calls[n].kind = kind /\ calls[n].step = k})

\* the label of the section of a step
Heading(step) == <<"-", "-", "-", " ">> \o PyStr(step) \o <<" ", "-", "-", "-">>

\* the index of the last step of the plan
LastIndex == Len(Items(steps)) - 1

\* C1: run ends by returning a string; the only exception it may end with is
\* the decode error of an undecodable routing response.
C1_RunReturns == pc = "raised" => err = "JSONDecodeError"

\* C2: when every completion call of the run has failed, the run does not end
\* with an exception.
C2_AllFailedReturns == all_failed => pc # "raised"

\* C3: the text solve_step_with_voting returns is one of the candidates that
\* were generated for the step.
C3_WinnerIsCandidate ==
    pc = "validate" => \E n \in 1..Len(candidates) : candidates[n] = new_content

\* C4: a judged text that is the sentinel error text of _call_llm is never
\* accepted by the first validation into solution_content.
C4_SentinelRejected ==
    (pc = "loop" /\ cur.outcome = "Validated") => ~StartsAt(new_content, 1, ApiError)

\* C5: a step has no repair call when its judged text is accepted and exactly
\* one repair call and one re-validation when it is rejected; a finished step
\* is never solved or repaired again; after a rejected repair the loop is at
\* the next step, with no exception.
C5_SingleRepair ==
    /\ \A k \in 0..(i - 1) :
         Count("fix", k) <= 1 /\ Count("judge", k) = 1 /\ Count("solve", k) = VoteCount
    /\ cur.outcome = "Validated" => Count("fix", cur.i) = 0 /\ cur.validations = 1
    /\ cur.outcome \in {"Repaired", "Skipped"} =>
         Count("fix", cur.i) = 1 /\ cur.validations = 2
    /\ (pc = "repair" /\ cur.i = i) => Count("fix", i) = 0 /\ cur.validations = 1
    /\ (cur.outcome = "Skipped" /\ pc = "loop") => i = cur.i + 1 /\ err = NoErr

\* C5 witness: step 1 is being solved after step 0 was repaired once in vain
\* and skipped.
C5_Witness ==
    /\ pc = "generate" /\ i = 1
    /\ Count("fix", 0) = 1
    /\ state.solution_content = <<>>

\* C6: right after a step whose judged text passed validation, the solution is
\* the solution before the step followed by the section labeled with the step
\* if the step is not at the last index, and the judged text alone if it is.
C6_ValidatedAccumulates ==
    (pc = "loop" /\ cur.outcome = "Validated") =>
        IF cur.i # LastIndex
        THEN state.solution_content =
               cur.before.solution_content \o <<"\n", "\n">>
               \o Heading(Items(steps)[cur.i + 1]) \o <<"\n">> \o new_content
        ELSE state.solution_content = new_content

\* C6 witness: an intermediate step "Research X" was validated and appended.
C6_Witness ==
    /\ pc = "loop" /\ cur.outcome = "Validated" /\ cur.i < LastIndex
    /\ Contains(state.solution_content, Heading(JStr(ResearchX)))

C8_FinalReplaces ==
    (pc = "done" /\ cur.i = LastIndex /\ cur.outcome = "Validated") =>
        /\ result = new_content
        /\ \A k \in 1..cur.i : ~Contains(result, Heading(Items(steps)[k]))

\* C8 witness: run returned the last step's text after an earlier step had
\* put content into the solution.
C8_Witness ==
    /\ pc = "done" /\ cur.outcome = "Validated" /\ cur.i >= 1
    /\ cur.before.solution_content # <<>>
    /\ result = new_content

\* C9: the value decompose returns is a list whose last element is the final
\* report instruction.
C9_LastStepIsFinalReport ==
    pc # "decompose" =>
        /\ steps.k = "list" /\ steps.v # <<>>
        /\ steps.v[Len(steps.v)] = JStr(FinalReport)

\* the answers to the decomposition call that are no JSON: chat, a cut-off
\* list, nothing, whitespace that strip leaves nothing of, the sentinel
Undecodable == {Chatty, Truncated, <<>>, ApiError \o Timeout}

\* C10: after an undecodable decomposition answer, decompose has returned the
\* one-element list [main_goal] and nothing was raised.
C10_FallbackToGoal ==
    (pc = "len" /\ reply \in Undecodable) =>
        steps = JList(<<JStr(goal)>>) /\ err = NoErr

\* C10 witness: the backend failed on the decomposition call and the plan is
\* the goal.
C10_Witness ==
    /\ pc = "len" /\ reply = ApiError \o Timeout
    /\ steps = JList(<<JStr(goal)>>)

\* the routing call has been made and its answer is one of the answers that
\* are no JSON
RoutingUndecodable == pc # "route" /\ reply \in Undecodable

\* C11: when the routing answer cannot be parsed, choose_model has raised the
\* decode error out of run, run has returned nothing, and no candidate, judge
\* or repair call was made for any step.
C11_RoutingDecodeFatal ==
    RoutingUndecodable =>
        /\ pc = "raised" /\ err = "JSONDecodeError"
        /\ result = <<>> /\ state.solution_content = <<>>
        /\ \A n \in 1..Len(calls) : calls[n].kind \notin {"solve", "judge", "fix"}

\* C11 witness: the router answered with chat instead of JSON for a plan of
\* two steps, json.loads rejects the cleaned answer, and the run ended with
\* the decode error after the routing call.
C11_Witness ==
    /\ RoutingUndecodable /\ reply = Chatty
    /\ Len(Items(steps)) = 2
    /\ pc = "raised"
    /\ Count("route", -1) = 1
    /\ ~JsonLoads(Strip(RemoveFences(reply))).ok

CandidateIndex(n) ==
    Cardinality({m \in 1..(n - 1) : calls[m].kind = "solve" /\ calls[m].step = calls[n].step})

\* C19: once the candidates of a step are generated, exactly vote_count
\* candidate calls were made for it; the candidate call of index k has
\* temperature 1.0 + 0.25 * k and the prompt of the step's other candidate
\* calls; and the calls have reasoning on exactly when the step's
\* classification names model B.
C19_CandidateCalls ==
    \* the classification of the step cur is about names model B
    LET ReasoningProfile ==
            LET m == ModelOf(Subscript(models, cur.i).val).val
            IN m.k = "str" /\ m.v = <<"B">>
    IN
    /\ pc \in {"shuffle", "judge", "validate"} => Count("solve", i) = VoteCount
    /\ \A n \in 1..Len(calls) :
         calls[n].kind = "solve" =>
            /\ CandidateIndex(n) < VoteCount
            /\ calls[n].temp = 100 + 25 * CandidateIndex(n)
            /\ \A m \in 1..Len(calls) :
                 (calls[m].kind = "solve" /\ calls[m].step = calls[n].step) =>
                    calls[m].ctx = calls[n].ctx
            /\ calls[n].step = cur.i => calls[n].thinking = ReasoningProfile

\* C20: when the judge's reply does not single out one of the shuffled
\* candidates, the text solve_step_with_voting returns is the first of them.
C20_JudgeDefaultsToFirst ==
    \* the shuffled candidates the returned text is, tags apart
    LET Identified == {n \in 1..Len(candidates) : RemoveTags(candidates[n]) = new_content}
    IN
    (pc = "validate" /\ Cardinality(Identified) # 1) =>
        new_content \in {candidates[1], RemoveTags(candidates[1])}

HasMarker(t) ==
    \E p \in 1..Len(t) : \E q \in p..Len(t) : SubSeq(t, p, q) \in {ICannot, IAmAnAI}

\* C22: validate returns, in this order of tests: rejected with the empty
\* output diagnostic for an empty or whitespace-only text, rejected with the
\* too short diagnostic for a text of fewer than 5 characters, accepted with
\* the refusal warning for a text holding a refusal marker, accepted with
\* Logic Valid otherwise; no text with a refusal marker is rejected.
C22_DecisionTable ==
    \* a text that is empty or made of whitespace only
    LET Blank(t) == \A p \in 1..Len(t) : t[p] \in WS
    IN
    verdict # <<>> =>
        /\ verdict = IF Blank(content) THEN <<FALSE, MsgEmpty>>
                     ELSE IF Len(content) < 5 THEN <<FALSE, MsgShort>>
                     ELSE IF HasMarker(content) THEN <<TRUE, MsgRefusal>>
                     ELSE <<TRUE, MsgValid>>
        /\ HasMarker(content) => verdict[1]

\* C22 witness: a text of five characters of which four are left when it is
\* stripped was accepted as Logic Valid.
C22_Witness ==
    /\ content = ShortText \o <<" ">>
    /\ verdict = <<TRUE, MsgValid>>

\* C23: validate("ok!!") returns (True, "Logic Valid").
C23_OkAccepted ==
    (content = ShortText /\ verdict # <<>>) => verdict = <<TRUE, MsgValid>>

\* C23 as amended: validate("ok!!") returns (False, "Error: Response too short
\* to be valid."), the text having four characters, fewer than five.
C23_OkRejected ==
    (content = ShortText /\ verdict # <<>>) =>
        Len(content) = 4 /\ verdict = <<FALSE, MsgShort>>

\* C23 witness: validate was called on the four characters "ok!!" and has
\* returned.
C23_Witness ==
    /\ content = <<"o", "k", "!", "!">>
    /\ verdict # <<>>
    /\ ~verdict[1]

\* C25: whatever generate_content did, _call_llm has raised nothing and has
\* returned a text: the sentinel followed by the message when an exception
\* occurred (raised by the client call, or by the extraction on a candidate
\* without content or parts), the empty text for a response with no text,
\* and the stripped text of the parts otherwise.
C25_NeverRaises ==
    \* the response has no text: no candidates, or parts of which none has a
    \* non-empty text
    LET NoText(r) ==
            \/ r.shape \in {"no_candidates", "empty_candidates"}
            \/ r.shape = "parts" /\ \A k \in 1..Len(r.parts) :
                                       ~r.parts[k].has_text \/ r.parts[k].text = <<>>
    IN
    returned.called =>
        /\ ~returned.raised
        /\ response.shape = "exception" => returned.val = ApiError \o response.msg
        /\ response.shape \in {"no_content", "no_parts"} =>
             StartsAt(returned.val, 1, ApiError) /\ Len(returned.val) > Len(ApiError)
        /\ NoText(response) => returned.val = <<>>
        /\ response.shape = "parts" =>
             /\ ~StartsAt(returned.val, 1, ApiError)
             /\ returned.val # <<>> =>
                  returned.val[1] \notin WS /\ returned.val[Len(returned.val)] \notin WS

\* C25 witness: the first candidate of the response had no content, and
\* _call_llm returned the sentinel text without raising.
C25_Witness ==
    /\ returned.called /\ ~returned.raised
    /\ response.shape = "no_content"
    /\ returned.val = ApiError \o MsgNoContent

\* C26: after main was run with --monthly-summary, the monthly summary has
\* run for month N of the current year when a number N in 1..12 was given,
\* and for the month before the current one (December of the year before, in
\* January) when no number was given.
C26_MonthlySummaryRuns ==
    (workflow # NoWorkflow /\ argv.monthly_summary # NoFlag) =>
        /\ argv.monthly_summary = FlagAlone =>
             workflow = Ran("monthly", IF today.month = 1 THEN today.year - 1 ELSE today.year,
                            IF today.month = 1 THEN 12 ELSE today.month - 1, argv.logseq)
        /\ (argv.monthly_summary.k = "int" /\ argv.monthly_summary.n \in 1..12) =>
             workflow = Ran("monthly", today.year, argv.monthly_summary.n, argv.logseq)

\* C27: for every vote_count from 1 on, solve_step_with_voting does not
\* raise, and when it returns it has generated vote_count candidates and has
\* shown the judge all of them, in the order the shuffle left them in.
C27_AnyVoteCount ==
    /\ pc # "raised"
    /\ pc = "validate" =>
         /\ Len(candidates) = vote_count
         /\ Count("solve", 0) = vote_count
         /\ Shown(candidates) = candidates

\* C28: an accepted repair leaves last_error at the diagnostic of the rejected
\* judged text; the candidate prompts of the next step embed the snapshot
\* with that diagnostic; and a step that started with a diagnostic ends with
\* last_error None only when its judged text passed validation at once.
C28_ErrorSurvivesRepair ==
    /\ (pc = "loop" /\ cur.outcome = "Repaired") =>
         /\ state.last_error = Validate(new_content)[2]
         /\ state.last_error \in {MsgEmpty, MsgShort}
    /\ (pc \in {"generate", "shuffle", "judge", "validate"} /\ cur.prev = "Repaired") =>
         /\ cur.before.last_error \in {MsgEmpty, MsgShort}
         /\ state.last_error = cur.before.last_error
         /\ \A n \in 1..Len(calls) :
              (calls[n].kind = "solve" /\ calls[n].step = cur.i) =>
                  calls[n].ctx.last_error = cur.before.last_error
    /\ (pc = "loop" /\ cur.i >= 0 /\ cur.before.last_error # None
          /\ state.last_error = None) => cur.outcome = "Validated"

\* the step after a repaired step has made a candidate call, whose prompt
\* reports the validation error of the step before
C28_Witness ==
    /\ pc \in {"generate", "shuffle"}
    /\ cur.prev = "Repaired"
    /\ Len(candidates) >= 1
    /\ calls[Len(calls)].kind = "solve"
    /\ calls[Len(calls)].ctx.last_error = MsgShort
    /\ Len(cur.before.solution_content) > 0

\* the score lines the file holds after the runs 1..n, when last is the
\* latest run: the earlier ones struck through, the latest plain
RECURSIVE ScoreLinesText(_, _)
ScoreLinesText(n, last) ==
    IF n = 0 THEN <<>>
    ELSE ScoreLinesText(n - 1, last)
         \o (IF n < last
             THEN <<"-", " ", "~", "~">> \o IntToText(entered[n]["Productivity Score"])
                  \o <<"/", "5", "~", "~", "\n">>
             ELSE <<"-", " ">> \o IntToText(entered[n]["Productivity Score"])
                  \o <<"/", "5", "\n">>)

\* C29: after n >= 1 runs on the file of one day, the Productivity Score
\* section is its header, then exactly n score lines in run order, the last
\* one plain and every earlier one struck through once, then a blank line.
C29_ScoreHistory ==
    Len(entered) >= 1 =>
        /\ Len(ParseExistingDailyFile(file)["Productivity Score"]) = Len(entered)
        /\ Contains(file, DAILY_SECTION_HEADERS["Productivity Score"] \o <<"\n">>
                          \o ScoreLinesText(Len(entered), Len(entered)) \o <<"\n">>)

\* three runs with the scores 3, 5 and 1 have left the history of the scores
C29_Witness ==
    /\ Len(entered) = 3
    /\ entered[1]["Productivity Score"] = 3
    /\ entered[2]["Productivity Score"] = 5
    /\ entered[3]["Productivity Score"] = 1
    /\ Contains(file, <<"-", " ", "~", "~", "3", "/", "5", "~", "~", "\n",
                        "-", " ", "~", "~", "5", "/", "5", "~", "~", "\n",
                        "-", " ", "1", "/", "5", "\n">>)

\* C30: a section of entries holds the line "- N/A" only while no run has
\* supplied an entry for it.
C30_PlaceholderOnlyWhenEmpty ==
    \A n \in 1..3 :
        LET key == DAILY_SECTION_ORDER[n]
            lines == ParseExistingDailyFile(file)[key]
        IN (\E k \in 1..Len(lines) : lines[k] = NotAvailable) =>
               \A r \in 1..Len(entered) : entered[r][key] = <<>>

====
